---- MODULE Spec2Model ----
(***************************************************************************)
(* A model of malmo::MissionRecord (Malmo/src/MissionRecord.cpp): the      *)
(* life cycle of recording sessions (construction, move, close, teardown), *)
(* the temporary directories they own and the archive they write.          *)
(*                                                                         *)
(* A path is a sequence of one-character strings.  close() is modelled     *)
(* statement by statement: `run' is the call frame of the operation that   *)
(* is executing or that completed last.                                    *)
(***************************************************************************)
EXTENDS Integers, Sequences, FiniteSets, TLC

VARIABLES
    rec,    \* the MissionRecord objects: life, is_closed, spec
    fs,     \* the temporary directories on disk: existence and entries
    out,    \* the destination files on disk
    run     \* the frame of the running (or last completed) operation

vars == <<rec, fs, out, run>>

-----------------------------------------------------------------------------
(* Bounds of the model *)

\* number of regular files that can appear directly in a temp directory
MaxRootFiles == 1

(* Program constants *)

\* file_name_in_archive.substr(2, ...): the number of leading characters cut
TrimOffset == 2

-----------------------------------------------------------------------------
(* The universe: objects, paths, directory entries *)

Objs == {"A", "B"}

\* temp_dir values the specs of the model name
D1 == <<".", "/", "t">>
D2 == <<"u">>
TempDirs == {D1, D2}

\* destination values
O1 == <<"o">>
Dests == {O1}

NoPath == <<>>

\* boost::filesystem::path::preferred_separator of the host: the model's host
\* is one where both "/" and "\" separate and "\" is the one operator/ inserts,
\* so that every statement of addFile has an effect
preferred_separator == "\\"

\* names of the regular files external writers drop into a temp directory
FileChar == <<"f", "g", "k">>
RootFiles == { <<FileChar[n]>> : n \in 1..MaxRootFiles }
SubDir == <<"s">>
SubFile == <<"s", "h">>
DirEntries == {SubDir}
Entries == RootFiles \cup {SubDir, SubFile}

\* what external writers may create in each temp directory: in D1 every entry,
\* in D2 a single file
Universe(d) == IF d = D1 THEN Entries ELSE {<<FileChar[1]>>}

\* a slip: recursive_directory_iterator, which also yields what is deeper
Children_recursive(ents, dir) ==
    { e \in ents : Len(e) > Len(dir) /\ SubSeq(e, 1, Len(dir)) = dir }

\* the entries directly inside directory dir (a relative path, <<>> = root)
Children(ents, dir) ==
    { e \in ents : Len(e) = Len(dir) + 1 /\ SubSeq(e, 1, Len(dir)) = dir }

NoDir == [ex |-> FALSE, ents |-> {}]
NoFile == [ex |-> FALSE, entries |-> <<>>, whole |-> FALSE]

-----------------------------------------------------------------------------
(* MissionRecordSpec values *)

\* MissionRecordSpec(): the default-constructed spec
MissionRecordSpec ==
    [is_recording |-> FALSE, temp_dir |-> NoPath, destination |-> NoPath]

\* the specs a record is constructed with
Specs == [is_recording : BOOLEAN, temp_dir : TempDirs, destination : Dests]

\* an object that is not constructed yet, and one that is destroyed; `moved'
\* records that the object was the source of a move and not a destination since
NoRecord ==
    [life |-> "none", is_closed |-> FALSE, spec |-> MissionRecordSpec, moved |-> FALSE]
Gone ==
    [life |-> "gone", is_closed |-> FALSE, spec |-> MissionRecordSpec, moved |-> FALSE]

\* the objects are named in the order in which they come to life
Fresh(r, o) == r[o].life = "none" /\ (o = "A" \/ r["A"].life # "none")

-----------------------------------------------------------------------------
(* boost::filesystem::path, as far as addFile uses it *)

IsSeparator(c) == c = "/" \/ c = preferred_separator

\* directory / filename, as directory_iterator yields it: rel appended to d
RECURSIVE PathString(_, _)
PathString(d, rel) ==
    IF rel = <<>> THEN d
    ELSE PathString(d \o <<preferred_separator, Head(rel)>>, Tail(rel))

\* path::relative_path(): the path without its root directory
RECURSIVE relative_path(_)
relative_path(p) ==
    IF p # <<>> /\ IsSeparator(Head(p)) THEN relative_path(Tail(p)) ELSE p

\* the elements of a path
RECURSIVE Split(_, _, _)
Split(p, cur, acc) ==
    IF p = <<>> THEN (IF cur = <<>> THEN acc ELSE Append(acc, cur))
    ELSE IF IsSeparator(Head(p))
         THEN Split(Tail(p), <<>>, IF cur = <<>> THEN acc ELSE Append(acc, cur))
         ELSE Split(Tail(p), Append(cur, Head(p)), acc)

\* path::normalize(): "." is dropped except as first or last element, a name
\* followed by ".." is dropped with it
RECURSIVE NormElems(_, _, _)
NormElems(es, k, temp) ==
    IF k > Len(es) THEN temp
    ELSE IF es[k] = <<".">> /\ k # 1 /\ k # Len(es)
         THEN NormElems(es, k + 1, temp)
    ELSE IF es[k] = <<".", ".">> /\ temp # <<>> /\ temp[Len(temp)] # <<".", ".">>
         THEN NormElems(es, k + 1, SubSeq(temp, 1, Len(temp) - 1))
    ELSE NormElems(es, k + 1, Append(temp, es[k]))

RECURSIVE Join(_)
Join(es) ==
    IF es = <<>> THEN <<>>
    ELSE IF Len(es) = 1 THEN es[1]
    ELSE es[1] \o <<preferred_separator>> \o Join(Tail(es))

normalize(p) ==
    LET t == NormElems(Split(p, <<>>, <<>>), 1, <<>>)
    IN  IF t = <<>> THEN <<".">> ELSE Join(t)

\* std::replace(begin, end, a, b)
replace(s, a, b) == [i \in 1..Len(s) |-> IF s[i] = a THEN b ELSE s[i]]

\* std::string::substr(pos, npos), defined when pos <= size
substr(s, pos) == SubSeq(s, pos + 1, Len(s))

\* addFile, lines 155-157: the entry name of the file at `path'
file_name_in_archive(path) ==
    substr(replace(normalize(relative_path(path)), "\\", "/"), TrimOffset)

\* substr throws std::out_of_range when pos > size
substr_throws(path) ==
    Len(normalize(relative_path(path))) < TrimOffset

-----------------------------------------------------------------------------
(* The call frame *)

Idle ==
    [o        |-> "-",      \* the object the operation runs on
     by       |-> "none",   \* "call": close() called explicitly; "dtor": ~MissionRecord
     pc       |-> "idle",   \* the statement about to execute, or how the call ended
     did      |-> FALSE,    \* close() got past its guard at line 86
     rep      |-> FALSE,    \* close() called right after a close() on the same object
     stk      |-> <<>>,     \* the activations of addFiles: directory and entries to visit
     cur      |-> <<>>,     \* *dirIter
     fileList |-> <<>>,     \* the files collected, relative to temp_dir
     i        |-> 0,        \* position of the range-for over fileList
     tar      |-> <<>>,     \* the entries put into the tarball
     bad      |-> <<>>,     \* the files for which addFile threw
     log      |-> {},       \* the warnings written to std::cout
     flt      |-> {},       \* the failures that occurred during the call
     err      |-> "none",   \* the exception that left close()
     hist     |-> {}]       \* what happened in earlier operations (see Past)

Frame(o, by, pc) == [Idle EXCEPT !.o = o, !.by = by, !.pc = pc]

\* what has happened so far, kept from one operation to the next: "threw", an
\* exception left a close() (lines 92-122); "shared", a record was constructed
\* on a temp_dir that a living recording record, not closed, holds
Past == run.hist \cup (IF run.err # "none" THEN {"threw"} ELSE {})

\* the temp_dir of spec sp is held by a living recording record that is not closed
Held(r, sp) ==
    \E o \in Objs :
        /\ r[o].life = "live"
        /\ r[o].spec.is_recording
        /\ ~r[o].is_closed
        /\ r[o].spec.temp_dir = sp.temp_dir

\* no operation is executing
Resting == run.pc \in {"idle", "returned", "raised", "destroyed"}

\* the object, spec and directory of the running call
Self == rec[run.o]
Tmp == rec[run.o].spec.temp_dir
Dst == rec[run.o].spec.destination

-----------------------------------------------------------------------------
(* The statements of MissionRecord.cpp that decide *)

\* a slip: the constructor does not create the directory
create_directories_skipped(f, d) == f

\* line 43: boost::filesystem::create_directories(temp_dir)
create_directories(f, d) == [f EXCEPT ![d].ex = TRUE]

\* a slip: boost::filesystem::remove, which removes only an empty directory
remove_nonrecursive(f, d) == IF f[d].ents = {} THEN [f EXCEPT ![d] = NoDir] ELSE f

\* line 122: boost::filesystem::remove_all(temp_dir)
remove_all(f, d) == [f EXCEPT ![d] = NoDir]

\* a slip: the guard always returns
early_return_always(r) == TRUE

\* a slip: the guard looks at is_closed only
early_return_closed_only(r) == r.is_closed

\* line 86: the guard of close()
early_return(r) == ~r.spec.is_recording \/ r.is_closed

\* line 50: the destructor closes a record that is not closed
dtor_closes(r) == ~r.is_closed

\* lines 66-67, 75-76: the destination of a move takes is_closed and spec
move_to(dst, src) == [dst EXCEPT !.life = "live", !.is_closed = src.is_closed, !.spec = src.spec]

\* a slip: the source of a move keeps its spec
move_from_keeps_spec(src) == src

\* a slip: the source of a move is also marked as not closed
move_from_reopens(src) == [src EXCEPT !.spec = MissionRecordSpec, !.is_closed = FALSE]

\* lines 69, 78: the source of a move is left with a default spec
move_from(src) == [src EXCEPT !.spec = MissionRecordSpec]

\* line 74: self-assignment changes nothing
is_self_move(b, a) == b = a

\* a slip: the archive is built whatever the file list holds
builds_archive_always(fileList) == TRUE

\* line 94: an archive is built when the file list is not empty
builds_archive(fileList) == Len(fileList) > 0

\* line 124
set_closed(r) == [r EXCEPT !.is_closed = TRUE]

\* close() returns: to the caller, or into the destructor's try block
returns(f) == [f EXCEPT !.pc = IF f.by = "dtor" THEN "dtor_exit" ELSE "returned"]

\* a slip: a destructor without the try block
unwind_uncaught(f, e) == [f EXCEPT !.err = e, !.pc = "raised"]

\* an exception leaves close(): lines 55-62 catch it in the destructor,
\* an explicit call lets it propagate
unwind(f, e) ==
    [f EXCEPT !.err = e, !.pc = IF f.by = "dtor" THEN "catch" ELSE "raised"]

\* a slip: the loop over the file list ends after its first file
next_file_once(f) == [f EXCEPT !.i = @ + 1, !.pc = IF f.i >= 1 THEN "finish" ELSE "addFile"]

\* the position after the body of the range-for at line 98
next_file(f) ==
    [f EXCEPT !.i = @ + 1,
              !.pc = IF f.i >= Len(f.fileList) THEN "finish" ELSE "addFile"]

\* a slip: no try block around addFile
addFile_uncaught(f, path) ==
    [f EXCEPT !.err = "runtime_error", !.pc = IF f.by = "dtor" THEN "catch" ELSE "raised"]

\* lines 102-104: an exception of addFile is caught, logged, and the loop goes on
catch_addFile(f, path) ==
    next_file([f EXCEPT !.log = @ \cup {[w |-> "archive", p |-> path]}])

\* a slip: no check before the directory is opened
missing_directory_unchecked(f, d, rel) == FALSE

\* lines 129-132: addFiles throws when its directory does not exist
missing_directory(f, d, rel) ==
    ~(d \in DOMAIN f /\ f[d].ex /\ (rel = <<>> \/ rel \in f[d].ents))

\* a slip: a destination that cannot be opened is an error
open_failed_throws(f, dest) ==
    [f EXCEPT !.flt = @ \cup {"open"}, !.err = "io",
              !.pc = IF f.by = "dtor" THEN "catch" ELSE "raised"]

\* lines 110-112: the destination cannot be opened: a warning, no write
open_failed(f, dest) ==
    [f EXCEPT !.log = @ \cup {[w |-> "output", p |-> dest]},
              !.flt = @ \cup {"open"},
              !.pc = "remove_all"]

-----------------------------------------------------------------------------
Init ==
    /\ rec = [o \in Objs |-> NoRecord]
    /\ fs = [d \in TempDirs |-> NoDir]
    /\ out = [d \in Dests |-> NoFile]
    /\ run = Idle

-----------------------------------------------------------------------------
(* Operations on a record, called by the owner *)

\* MissionRecord(const MissionRecordSpec&), lines 38-45 (a create_directories
\* that throws leaves no object behind: the model has no such step)
Construct(o, sp) ==
    /\ Resting
    /\ Fresh(rec, o)
    /\ rec' = [rec EXCEPT ![o] = [life |-> "live", is_closed |-> FALSE, spec |-> sp,
                                  moved |-> FALSE]]
    /\ fs' = IF sp.is_recording THEN create_directories(fs, sp.temp_dir) ELSE fs
    /\ run' = [Idle EXCEPT !.hist =
                  Past \cup (IF sp.is_recording /\ Held(rec, sp) THEN {"shared"} ELSE {})]
    /\ UNCHANGED <<out>>

\* MissionRecord(MissionRecord&&), lines 65-70
MoveConstruct(b, a) ==
    /\ Resting
    /\ a # b
    /\ Fresh(rec, b)
    /\ rec[a].life = "live"
    /\ rec' = [rec EXCEPT ![b] = [move_to(rec[b], rec[a]) EXCEPT !.moved = FALSE],
                          ![a] = [move_from(rec[a]) EXCEPT !.moved = TRUE]]
    /\ run' = [Idle EXCEPT !.hist = Past]
    /\ UNCHANGED <<fs, out>>

\* operator=(MissionRecord&&), lines 72-82
MoveAssign(b, a) ==
    /\ Resting
    /\ rec[b].life = "live"
    /\ rec[a].life = "live"
    /\ rec' = IF is_self_move(b, a) THEN rec
              ELSE [rec EXCEPT ![b] = [move_to(rec[b], rec[a]) EXCEPT !.moved = FALSE],
                               ![a] = [move_from(rec[a]) EXCEPT !.moved = TRUE]]
    /\ run' = [Idle EXCEPT !.hist = Past]
    /\ UNCHANGED <<fs, out>>

\* the owner calls close()
CloseCall(o) ==
    /\ Resting
    /\ rec[o].life = "live"
    /\ run' = [Frame(o, "call", "close") EXCEPT
                  !.rep = (run.o = o /\ run.by = "call" /\ run.pc \in {"returned", "raised"}),
                  !.hist = Past]
    /\ UNCHANGED <<rec, fs, out>>

\* the owner destroys the record: ~MissionRecord() starts
Destruct(o) ==
    /\ Resting
    /\ rec[o].life = "live"
    /\ run' = [Frame(o, "dtor", "dtor") EXCEPT !.hist = Past]
    /\ UNCHANGED <<rec, fs, out>>

\* an external writer (video, observations, rewards, commands) creates a file
\* or a subdirectory in an existing temp directory, between operations
EnvWrite(d, e) ==
    /\ Resting
    /\ fs[d].ex
    /\ e \in Universe(d) \ fs[d].ents
    /\ Len(e) > 1 => SubSeq(e, 1, Len(e) - 1) \in fs[d].ents
    /\ fs' = [fs EXCEPT ![d].ents = @ \cup {e}]
    /\ run' = [Idle EXCEPT !.hist = Past]
    /\ UNCHANGED <<rec, out>>

-----------------------------------------------------------------------------
(* boost::filesystem queries on an entry `rel' of temp directory d *)

exists(f, d, rel) == d \in DOMAIN f /\ f[d].ex /\ (rel = <<>> \/ rel \in f[d].ents)

is_directory(f, d, rel) == exists(f, d, rel) /\ (rel = <<>> \/ rel \in DirEntries)

\* the activation of addFiles that is executing
Top == run.stk[Len(run.stk)]

-----------------------------------------------------------------------------
(* ~MissionRecord(), lines 47-63 *)

\* line 50
dtor_check ==
    /\ run.pc = "dtor"
    /\ run' = [run EXCEPT !.pc = IF dtor_closes(Self) THEN "close" ELSE "dtor_exit"]
    /\ UNCHANGED <<rec, fs, out>>

\* lines 55-62: the handlers write a line to std::cout
dtor_catch ==
    /\ run.pc = "catch"
    /\ run' = [run EXCEPT !.log = @ \cup {[w |-> "closing", p |-> NoPath]},
                          !.pc = "dtor_exit"]
    /\ UNCHANGED <<rec, fs, out>>

\* line 63: the destructor completes, the object is gone
dtor_exit ==
    /\ run.pc = "dtor_exit"
    /\ rec' = [rec EXCEPT ![run.o] = Gone]
    /\ run' = [run EXCEPT !.pc = "destroyed"]
    /\ UNCHANGED <<fs, out>>

-----------------------------------------------------------------------------
(* close(), lines 84-125, and addFiles, lines 127-151 *)

\* lines 86-92
close_guard ==
    /\ run.pc = "close"
    /\ run' = IF early_return(Self) THEN returns(run)
              ELSE [run EXCEPT !.did = TRUE, !.pc = "addFiles",
                               !.stk = <<[dir |-> <<>>, todo |-> {}]>>]
    /\ UNCHANGED <<rec, fs, out>>

\* lines 129-132: addFiles throws when its directory does not exist
addFiles_exists ==
    /\ run.pc = "addFiles"
    /\ run' = IF missing_directory(fs, Tmp, Top.dir) THEN unwind(run, "missing")
              ELSE [run EXCEPT !.pc = "iterator"]
    /\ UNCHANGED <<rec, fs, out>>

\* line 133: directory_iterator's constructor opens the directory, or throws
\* filesystem_error (no permission, not a directory, vanished)
addFiles_iterator ==
    /\ run.pc = "iterator"
    /\ \E ok \in BOOLEAN :
         run' = IF ok /\ is_directory(fs, Tmp, Top.dir)
                THEN [run EXCEPT !.pc = "while",
                                 !.stk[Len(run.stk)].todo = Children(fs[Tmp].ents, Top.dir)]
                ELSE unwind([run EXCEPT !.flt = @ \cup {"iterator"}], "filesystem")
    /\ UNCHANGED <<rec, fs, out>>

\* lines 136, 149: the loop takes the next entry, in the order the directory
\* yields them, or addFiles returns
addFiles_while ==
    /\ run.pc = "while"
    /\ IF Top.todo = {}
       THEN run' = IF Len(run.stk) = 1
                   THEN [run EXCEPT !.stk = <<>>, !.cur = <<>>, !.pc = "size"]
                   ELSE [run EXCEPT !.stk = SubSeq(@, 1, Len(@) - 1), !.cur = <<>>]
       ELSE \E e \in Top.todo :
              run' = [run EXCEPT !.cur = e, !.pc = "exists",
                                 !.stk[Len(run.stk)].todo = @ \ {e}]
    /\ UNCHANGED <<rec, fs, out>>

\* line 138
addFiles_entry_exists ==
    /\ run.pc = "exists"
    /\ run' = [run EXCEPT !.pc = IF exists(fs, Tmp, run.cur) THEN "is_directory" ELSE "while"]
    /\ UNCHANGED <<rec, fs, out>>

\* lines 140-146: recurse into a directory, collect anything else
addFiles_is_directory ==
    /\ run.pc = "is_directory"
    /\ run' = IF is_directory(fs, Tmp, run.cur)
              THEN [run EXCEPT !.stk = Append(@, [dir |-> run.cur, todo |-> {}]),
                               !.pc = "addFiles"]
              ELSE [run EXCEPT !.fileList = Append(@, run.cur), !.pc = "while"]
    /\ UNCHANGED <<rec, fs, out>>

\* lines 94-98: the test, and the range-for takes the first file if there is one
close_size ==
    /\ run.pc = "size"
    /\ run' = IF builds_archive(run.fileList)
              THEN next_file([run EXCEPT !.i = 0])
              ELSE [run EXCEPT !.pc = "remove_all"]
    /\ UNCHANGED <<rec, fs, out>>

\* lines 98-105 and addFile, lines 153-159: one file of the list; putFile
\* throws when it cannot read the file
close_addFile ==
    /\ run.pc = "addFile"
    /\ LET rel == run.fileList[run.i]
           path == PathString(Tmp, rel)
       IN  \E ok \in BOOLEAN :
             run' = IF /\ ok
                       /\ exists(fs, Tmp, rel)
                       /\ ~is_directory(fs, Tmp, rel)
                       /\ ~substr_throws(path)
                    THEN next_file([run EXCEPT !.tar =
                           Append(@, [name |-> file_name_in_archive(path), src |-> rel])])
                    ELSE catch_addFile([run EXCEPT !.bad = Append(@, rel),
                                                   !.flt = @ \cup {"addFile"}], path)
    /\ UNCHANGED <<rec, fs, out>>

\* line 107: tarball.finish()
close_finish ==
    /\ run.pc = "finish"
    /\ \E ok \in BOOLEAN :
         run' = IF ok THEN [run EXCEPT !.pc = "open"]
                ELSE unwind([run EXCEPT !.flt = @ \cup {"finish"}], "io")
    /\ UNCHANGED <<rec, fs, out>>

\* lines 109-112: std::ofstream opens and truncates the destination, or fails
close_open ==
    /\ run.pc = "open"
    /\ \E ok \in BOOLEAN :
         IF ok
         THEN /\ out' = [out EXCEPT ![Dst] = [ex |-> TRUE, entries |-> <<>>, whole |-> FALSE]]
              /\ run' = [run EXCEPT !.pc = "copy"]
         ELSE /\ out' = out
              /\ run' = open_failed(run, Dst)
    /\ UNCHANGED <<rec, fs>>

\* lines 114-117: the tarball is compressed into the destination
close_copy ==
    /\ run.pc = "copy"
    /\ \E ok \in BOOLEAN :
         IF ok
         THEN /\ out' = [out EXCEPT ![Dst] = [ex |-> TRUE, entries |-> run.tar, whole |-> TRUE]]
              /\ run' = [run EXCEPT !.pc = "remove_all"]
         ELSE /\ out' = out
              /\ run' = unwind([run EXCEPT !.flt = @ \cup {"copy"}], "io")
    /\ UNCHANGED <<rec, fs>>

\* line 122
close_remove_all ==
    /\ run.pc = "remove_all"
    /\ \E ok \in BOOLEAN :
         IF ok
         THEN /\ fs' = remove_all(fs, Tmp)
              /\ run' = [run EXCEPT !.pc = "is_closed"]
         ELSE /\ fs' = fs
              /\ run' = unwind([run EXCEPT !.flt = @ \cup {"remove_all"}], "filesystem")
    /\ UNCHANGED <<rec, out>>

\* lines 124-125
close_is_closed ==
    /\ run.pc = "is_closed"
    /\ rec' = [rec EXCEPT ![run.o] = set_closed(@)]
    /\ run' = returns(run)
    /\ UNCHANGED <<fs, out>>

-----------------------------------------------------------------------------
Next ==
    \/ \E o \in Objs, sp \in Specs : Construct(o, sp)
    \/ \E b \in Objs, a \in Objs : MoveConstruct(b, a)
    \/ \E b \in Objs, a \in Objs : MoveAssign(b, a)
    \/ \E o \in Objs : CloseCall(o)
    \/ \E o \in Objs : Destruct(o)
    \/ \E d \in TempDirs, e \in Entries : EnvWrite(d, e)
    \/ dtor_check
    \/ dtor_catch
    \/ dtor_exit
    \/ close_guard
    \/ addFiles_exists
    \/ addFiles_iterator
    \/ addFiles_while
    \/ addFiles_entry_exists
    \/ addFiles_is_directory
    \/ close_size
    \/ close_addFile
    \/ close_finish
    \/ close_open
    \/ close_copy
    \/ close_remove_all
    \/ close_is_closed

Spec == Init /\ [][Next]_vars

-----------------------------------------------------------------------------
(* What the claims speak of *)

\* close() got past its guard and has just exited: it returned (to the caller
\* or into the destructor) or an exception left it
Exited ==
    run.did /\ run.pc \in {"returned", "raised", "dtor_exit", "catch"}

\* close() got past its guard and has just returned normally
ReturnedNormally ==
    run.did /\ run.pc \in {"returned", "dtor_exit"} /\ run.err = "none"

-----------------------------------------------------------------------------
(* C1 *)

\* C1: for a recording record that is not closed, close() removes temp_dir on
\* every exit path: once close() has exited, by returning or by an exception
\* (of the enumeration, of tarball.finish, of the compressing copy), the temp
\* directory does not exist.
C1_RemovedOnEveryExit == Exited => ~fs[Tmp].ex

-----------------------------------------------------------------------------
(* C2 *)

\* C2: whenever close() on a recording record that is not closed returns
\* normally, with or without warnings logged for a file or for the destination,
\* the temp directory does not exist and the record is closed.
C2_ReturnedMeansRemovedAndClosed ==
    ReturnedNormally => ~fs[Tmp].ex /\ Self.is_closed

\* close() has returned normally after archiving a directory with files, with
\* a warning logged
C2_Witness ==
    /\ ReturnedNormally
    /\ Len(run.fileList) > 0
    /\ run.log # {}

-----------------------------------------------------------------------------
(* C3 *)

\* C3: close() is idempotent: a close() called right after a close() on the
\* same record performs no filesystem operation and leaves the record, the
\* temp directories and the destination as the first call left them, whatever
\* the record and the filesystem state; the archive is written at most once.
C3_SecondCloseChangesNothing ==
    [][(run.rep /\ ~Resting) => (fs' = fs /\ out' = out /\ rec' = rec)]_vars

-----------------------------------------------------------------------------
(* C4 *)

\* C4: for a record whose spec has is_recording = FALSE, construction, every
\* step of every close() and of the destructor leave the temp directories and
\* the destination untouched, also when a directory exists at temp_dir, and
\* the record stays as it is until it is destroyed.
C4_InertHasNoEffect ==
    [][\A o \in Objs :
          /\ (run.o = o /\ ~Resting /\ ~rec[o].spec.is_recording)
                => (fs' = fs /\ out' = out /\ rec'[o] \in {rec[o], Gone})
          /\ (rec[o].life = "none" /\ rec'[o].life = "live" /\ ~rec'[o].spec.is_recording)
                => (fs' = fs /\ out' = out)]_vars

\* a second close() in a row on a record constructed with is_recording = FALSE
\* has returned while its temp_dir exists on disk with entries in it
C4_Witness ==
    /\ run.pc = "returned"
    /\ run.rep
    /\ ~Self.spec.is_recording
    /\ ~Self.moved
    /\ fs[Self.spec.temp_dir].ents # {}

-----------------------------------------------------------------------------
(* C5 *)

\* C5: the destructor never raises: whatever exception leaves the close() it
\* calls (missing temp directory, failure of the archive or of the compression,
\* failure of the removal), it is caught in the destructor and only logged, and
\* the destructor completes.
C5_TeardownNeverRaises ==
    run.by = "dtor" =>
        /\ run.pc # "raised"
        /\ Resting => (run.pc = "destroyed" /\ rec[run.o] = Gone)
        /\ (run.err # "none" /\ run.pc \in {"dtor_exit", "destroyed"})
              => [w |-> "closing", p |-> NoPath] \in run.log

\* a destructor has completed although remove_all threw in its close()
C5_Witness ==
    /\ run.by = "dtor"
    /\ run.pc = "destroyed"
    /\ run.err = "filesystem"
    /\ "remove_all" \in run.flt

-----------------------------------------------------------------------------
(* C6 *)

\* C6: after record a is moved into record b (move construction or move
\* assignment) a holds an inert spec and b holds a's spec and is_closed; no
\* step of close() or of the destructor on the moved-from a touches the temp
\* directories or the destination; a temp directory is only ever removed by an
\* operation on a record that holds the recording spec naming it, and a record
\* that is closed touches nothing again (so the directory is archived and
\* removed by b, and not a second time).
C6_MoveTransfersOwnership ==
    /\ [](\A a \in Objs : rec[a].moved => ~rec[a].spec.is_recording)
    /\ [][\A a \in Objs :
            /\ (~rec[a].moved /\ rec'[a].moved)
                  => \E b \in Objs \ {a} :
                        /\ rec'[b].life = "live"
                        /\ rec'[b].spec = rec[a].spec
                        /\ rec'[b].is_closed = rec[a].is_closed
            /\ (run.o = a /\ ~Resting /\ rec[a].moved) => (fs' = fs /\ out' = out)
            /\ (run.o = a /\ ~Resting /\ rec[a].is_closed) => (fs' = fs /\ out' = out)
            /\ \A d \in TempDirs :
                 (fs[d].ex /\ ~fs'[d].ex)
                    => /\ ~Resting
                       /\ ~Self.moved
                       /\ Self.spec.is_recording
                       /\ Self.spec.temp_dir = d]_vars

\* the destructor of a moved-from record is through with its close() while the
\* record it was moved into still owns a temp directory with entries in it
C6_Witness ==
    /\ run.by = "dtor"
    /\ run.pc = "dtor_exit"
    /\ Self.moved
    /\ \E b \in Objs :
         /\ rec[b].spec.is_recording
         /\ ~rec[b].is_closed
         /\ fs[rec[b].spec.temp_dir].ents # {}

-----------------------------------------------------------------------------
(* C7 *)

\* C7: when addFile fails for exactly one of the N collected files and nothing
\* else fails, close() does not raise, a warning naming that file's path is
\* logged, each of the other N-1 files is put into the tarball, and the archive
\* written to the destination holds exactly those N-1 entries.
C7_OneFileFails ==
    (Exited /\ run.flt = {"addFile"} /\ Len(run.bad) = 1) =>
        /\ run.pc \in {"returned", "dtor_exit"}
        /\ run.err = "none"
        /\ [w |-> "archive", p |-> PathString(Tmp, run.bad[1])] \in run.log
        /\ Len(run.tar) = Len(run.fileList) - 1
        /\ { run.tar[k].src : k \in 1..Len(run.tar) }
             = { run.fileList[k] : k \in 1..Len(run.fileList) } \ {run.bad[1]}
        /\ out[Dst] = [ex |-> TRUE, entries |-> run.tar, whole |-> TRUE]

\* close() has exited after one of at least two collected files failed in addFile
C7_Witness ==
    /\ Exited
    /\ run.flt = {"addFile"}
    /\ Len(run.bad) = 1
    /\ Len(run.fileList) >= 2

-----------------------------------------------------------------------------
(* C8 *)

\* the path of an entry relative to the temp root, with forward slashes
RECURSIVE GenericName(_)
GenericName(rel) ==
    IF Len(rel) <= 1 THEN rel
    ELSE <<Head(rel), "/">> \o GenericName(Tail(rel))

\* C8: when nothing fails, the archive written for a temp directory with N
\* regular files, nested ones included, holds exactly N entries, and the name
\* of each entry is the file's path relative to the temp root with forward
\* slashes, whatever the shape of temp_dir.
C8_EntryNamesRelativeToRoot ==
    (run.did /\ run.pc = "remove_all" /\ run.flt = {} /\ Len(run.fileList) > 0) =>
        LET files == fs[Tmp].ents \ DirEntries
            E == out[Dst].entries
        IN  /\ Len(E) = Cardinality(files)
            /\ { E[k].src : k \in 1..Len(E) } = files
            /\ \A k \in 1..Len(E) : E[k].name = GenericName(E[k].src)

-----------------------------------------------------------------------------
(* C9 *)

\* C9: when the destination cannot be opened for writing (and the removal of
\* the temp directory does not fail in its turn), close() does not raise: it
\* logs a warning naming the destination, no step of the call changes the
\* destination, the temp directory is removed and the record is closed.
C9_DestinationNotWritable ==
    /\ []((Exited /\ "open" \in run.flt /\ run.flt \subseteq {"open", "addFile"}) =>
            /\ run.pc \in {"returned", "dtor_exit"}
            /\ run.err = "none"
            /\ [w |-> "output", p |-> Dst] \in run.log
            /\ ~fs[Tmp].ex
            /\ Self.is_closed)
    /\ [][("open" \in run'.flt) => out' = out]_vars

\* close() has exited after the destination could not be opened
C9_Witness ==
    /\ Exited
    /\ run.flt = {"open"}
    /\ Len(run.tar) > 0

-----------------------------------------------------------------------------
(* C10 *)

\* C10: an explicit close() on a recording record that is not closed and whose
\* temp_dir does not exist fails with the missing-directory error, which
\* propagates to the caller; nothing is written to the destination.
C10_MissingDirectoryRaises ==
    [][(run.by = "call" /\ run.pc = "addFiles" /\ Len(run.stk) = 1 /\ ~fs[Tmp].ex)
          => /\ run'.pc = "raised"
             /\ run'.err = "missing"
             /\ out' = out
             /\ fs' = fs
             /\ rec' = rec]_vars

\* an explicit close() has raised the missing-directory error for its temp_dir
C10_Witness ==
    /\ run.by = "call"
    /\ run.pc = "raised"
    /\ run.err = "missing"
    /\ Len(run.stk) = 1
    /\ ~fs[Tmp].ex

-----------------------------------------------------------------------------
(* C11 *)

\* C11: when the temp directory holds at least one file and addFile fails for
\* every collected file, close() writes no archive: no step of the call
\* creates or changes the destination.
C11_AllFilesFailNoArchive ==
    [][(~Resting /\ Len(run.fileList) > 0 /\ run.pc \in {"open", "copy"}
          /\ Len(run.bad) = Len(run.fileList)) => out' = out]_vars

-----------------------------------------------------------------------------
(* C12 *)

\* a step of a close() (explicit or of the destructor) on a closed record o
\* touches neither the temp directories nor the destination
ClosedIsNoOp(o) ==
    (run.o = o /\ ~Resting /\ rec[o].is_closed) => (fs' = fs /\ out' = out)

\* C12: is_closed is a one-way latch: under any sequence of close, move
\* construction from the record, move assignment to it, move assignment from
\* it and destruction, once is_closed of a record is true it is never false
\* again while the record lives, and every later close() on that record
\* performs no filesystem operation.
C12_OneWayLatch ==
    [][\A o \in Objs :
          /\ (rec[o].life = "live" /\ rec[o].is_closed /\ rec'[o].life = "live")
                => rec'[o].is_closed
          /\ ClosedIsNoOp(o)]_vars

\* C12, amended: is_closed of a living record goes from true to false only in
\* a move assignment onto that record from a record that is not closed (the
\* record then holds the source's spec and flag); close, destruction and being
\* the source of a move never reset it, and every close() on a record whose
\* is_closed is true performs no filesystem operation.
C12_LatchButForMoveAssignTo ==
    [][\A o \in Objs :
          /\ (rec[o].life = "live" /\ rec[o].is_closed /\ rec'[o].life = "live"
                 /\ ~rec'[o].is_closed)
                => /\ Resting
                   /\ fs' = fs /\ out' = out
                   /\ \E a \in Objs \ {o} :
                         /\ rec[a].life = "live"
                         /\ ~rec[a].is_closed
                         /\ rec'[o].spec = rec[a].spec
                         /\ rec'[a].moved
                         /\ rec'[a].is_closed = rec[a].is_closed
          /\ ClosedIsNoOp(o)]_vars

\* an explicit close() has returned on a closed record that has since been the
\* source of a move, while the other record is alive
C12_Witness ==
    /\ run.by = "call"
    /\ run.pc = "returned"
    /\ Self.is_closed
    /\ Self.moved
    /\ \E b \in Objs \ {run.o} : rec[b].life = "live" /\ rec[b].is_closed

-----------------------------------------------------------------------------
(* C13: external writers that run while addFiles traverses the directory *)

\* close() is inside addFiles (lines 127-151)
Traversing ==
    run.did /\ run.pc \in {"addFiles", "iterator", "while", "exists", "is_directory"}

\* an external writer deletes entry e of the temp directory being traversed (a
\* file, or a subdirectory with what it holds), between two statements of
\* addFiles
EnvDelete(e) ==
    /\ Traversing
    /\ e \in fs[Tmp].ents
    /\ fs' = [fs EXCEPT ![Tmp].ents =
                 { x \in @ : ~(Len(x) >= Len(e) /\ SubSeq(x, 1, Len(e)) = e) }]
    /\ UNCHANGED <<rec, out, run>>

NextRace ==
    \/ Next
    \/ \E e \in Entries : EnvDelete(e)

SpecRace == Init /\ [][NextRace]_vars

\* C13: the collection fails only if the root directory does not exist when
\* the collection starts: when external writers delete entries (files,
\* subdirectories) beneath the root while addFiles traverses it, and nothing
\* else fails, the entries are skipped and close() does not raise; the only
\* exception is the missing-directory error of the activation for the root.
C13_OnlyMissingRootFails ==
    (run.did /\ run.err # "none" /\ run.flt \subseteq {"addFile"})
        => (run.err = "missing" /\ Len(run.stk) = 1 /\ Top.dir = <<>>)

-----------------------------------------------------------------------------
(* C14 *)

\* C14: when nothing changes the directory during the traversal, the list
\* addFiles hands back to close() holds every regular file beneath temp_dir,
\* at any depth, exactly once, holds no directory and nothing that is not
\* beneath temp_dir (the list of the model holds each path relative to
\* temp_dir; the full path is PathString(Tmp, rel)).
C14_CollectsEveryFileOnce ==
    (run.did /\ run.pc = "size") =>
        LET L == run.fileList
            files == fs[Tmp].ents \ DirEntries
        IN  /\ Len(L) = Cardinality(files)
            /\ { L[k] : k \in 1..Len(L) } = files
            /\ \A k \in 1..Len(L) :
                  /\ ~is_directory(fs, Tmp, L[k])
                  /\ SubSeq(PathString(Tmp, L[k]), 1, Len(Tmp)) = Tmp
                  /\ Len(PathString(Tmp, L[k])) > Len(Tmp)

\* addFiles has returned the list for a directory with a file at the root and
\* a file in a subdirectory
C14_Witness ==
    /\ run.did
    /\ run.pc = "size"
    /\ SubFile \in fs[Tmp].ents
    /\ RootFiles \cap fs[Tmp].ents # {}
    /\ Len(run.fileList) = 2

-----------------------------------------------------------------------------
(* C15 *)

\* the constructor of a recording record leaves its temp_dir in existence
ConstructionCreates ==
    [][\A o \in Objs :
          (/\ rec[o].life = "none"
           /\ rec'[o].life = "live"
           /\ \A a \in Objs \ {o} : rec'[a] = rec[a]
           /\ rec'[o].spec.is_recording)
             => fs'[rec'[o].spec.temp_dir].ex]_vars

\* close() is past its guard and about to test at line 129 that temp_dir exists
AtRootCheck == run.did /\ run.pc = "addFiles" /\ Len(run.stk) = 1

-----------------------------------------------------------------------------
(* C16 *)

\* C16: when the temp_dir of a recording record exists but holds no file (it
\* is empty, or holds only empty subdirectories) and neither the enumeration
\* nor the removal fails, close() does not raise, no step of it creates or
\* changes the destination, the temp directory is removed and the record is
\* closed.
C16_NoFilesNoArchive ==
    /\ []((Exited /\ run.fileList = <<>> /\ run.flt = {} /\ run.err # "missing") =>
            /\ run.pc \in {"returned", "dtor_exit"}
            /\ run.err = "none"
            /\ run.tar = <<>>
            /\ ~fs[Tmp].ex
            /\ Self.is_closed)
    /\ [][(run.did /\ ~Resting /\ run.fileList = <<>>) => out' = out]_vars

\* close() has returned for a temp_dir without files while the destination
\* holds the archive an earlier close() wrote
C16_Witness ==
    /\ ReturnedNormally
    /\ run.fileList = <<>>
    /\ run.flt = {}
    /\ out[Dst].whole
    /\ Len(out[Dst].entries) > 0

-----------------------------------------------------------------------------
(* C17 *)

\* every record that was brought to life has been destroyed
AllTornDown ==
    /\ run.pc = "destroyed"
    /\ \A o \in Objs : rec[o].life # "live"

\* C17: no temp directory is leaked across a transfer of ownership: after any
\* sequence of constructions, move constructions, move assignments (also onto
\* a recording record that is not closed) and destructions in which no close()
\* raised (in a destructor or in an explicit call), once every record is
\* destroyed no temp directory exists: every directory a constructor created
\* has been removed.
C17_NoLeakAcrossMoves ==
    (AllTornDown /\ "threw" \notin Past) => \A d \in TempDirs : ~fs[d].ex

-----------------------------------------------------------------------------
(* C18 *)

\* the stage of close() a statement belongs to: 1 the enumeration, 2 the
\* adding of the files, 3 the termination of the tarball, 4 the attempt to
\* write the destination, 5 the removal of temp_dir, 6 setting is_closed,
\* 7 the exit
Stage(pc) ==
    CASE pc \in {"addFiles", "iterator", "while", "exists", "is_directory", "size"} -> 1
      [] pc = "addFile" -> 2
      [] pc = "finish" -> 3
      [] pc \in {"open", "copy"} -> 4
      [] pc = "remove_all" -> 5
      [] pc = "is_closed" -> 6
      [] OTHER -> 7

\* C18: within one close() the stages come in a fixed order: the enumeration
\* of temp_dir, every addFile, tarball.finish, the attempt to write the
\* destination, the removal of temp_dir, is_closed = true.  Each effect
\* belongs to its stage, every collected file has been tried when the tarball
\* is finished, the destination is written only while temp_dir exists, and
\* is_closed is set by close() only when temp_dir has been removed.
C18_FixedOrder ==
    /\ [][(run.did /\ run'.did) =>
            /\ Stage(run'.pc) >= Stage(run.pc)
            /\ run'.fileList # run.fileList => Stage(run.pc) = 1
            /\ run'.tar # run.tar => Stage(run.pc) = 2
            /\ out' # out => (Stage(run.pc) = 4 /\ fs[Tmp].ex /\ fs'[Tmp].ex)
            /\ fs' # fs => (Stage(run.pc) = 5 /\ ~fs'[Tmp].ex)
            /\ rec' # rec => \/ Stage(run.pc) = 6 /\ ~fs[Tmp].ex /\ rec'[run.o].is_closed
                             \/ run.pc = "dtor_exit"]_vars
    /\ []((run.did /\ Stage(run.pc) \in {3, 4})
            => Len(run.tar) + Len(run.bad) = Len(run.fileList))

\* close() has returned after every stage: two files collected and added, the
\* archive written, temp_dir removed, is_closed set
C18_Witness ==
    /\ ReturnedNormally
    /\ Len(run.fileList) = 2
    /\ Len(run.tar) = 2
    /\ out[Dst] = [ex |-> TRUE, entries |-> run.tar, whole |-> TRUE]
    /\ ~fs[Tmp].ex
    /\ Self.is_closed

-----------------------------------------------------------------------------
(* C19 *)

\* C19: a close() that throws because temp_dir is missing leaves the record
\* as it was: neither the guard nor the throwing test changes the record, the
\* destination or the disk, so is_closed is still false and the spec still
\* recording; a later close(), or the close() of the destructor, then gets
\* past the guard and runs the procedure again instead of returning at once.
C19_MissingLeavesRecordOpen ==
    /\ [][(run.pc = "addFiles" /\ run'.err = "missing")
            => (rec' = rec /\ out' = out /\ fs' = fs)]_vars
    /\ []((run.pc \in {"raised", "catch"} /\ run.err = "missing")
            => (Self.spec.is_recording /\ ~Self.is_closed
                /\ run.tar = <<>> /\ run.fileList = <<>>))
    /\ [][(run.pc = "dtor" /\ ~Self.is_closed) => run'.pc = "close"]_vars
    /\ [][(run.pc = "close" /\ Self.spec.is_recording /\ ~Self.is_closed)
            => (run'.did /\ run'.pc = "addFiles"
                /\ rec' = rec /\ out' = out /\ fs' = fs)]_vars

\* a close() called right after a close() on the same record that threw for
\* the missing temp_dir has run the procedure again, and has thrown again
C19_Witness ==
    /\ run.rep
    /\ run.did
    /\ "threw" \in run.hist
    /\ run.pc = "raised"
    /\ run.err = "missing"
    /\ Len(run.stk) = 1

====
